---------------------------- MODULE Spec2Model ----------------------------
(***************************************************************************)
(* A model of pico8-to-lua: the rewrite pipeline patch_lua (src/lib.rs),   *)
(* the include resolver try_patch_includes (src/lib.rs) and the            *)
(* command-line driver main (src/bin/pico8-to-lua.rs).                     *)
(*                                                                         *)
(* Texts are TLA+ strings; a position p in 1..Len(s)+1 is the place just   *)
(* before the p-th character.  The six button glyphs and the presentation  *)
(* selector U+FE0F are not ASCII; each is written as one ASCII character   *)
(* that occurs nowhere else in the inputs (see ButtonCode).                *)
(***************************************************************************)
EXTENDS Integers, Sequences, FiniteSets, TLC

VARIABLES
    input,      \* the text handed to patch_lua (a borrowed &str)
    lua,        \* patch_lua's local `lua`: [text, owned] models Cow<str>
    prev,       \* the value of `lua` before the pass that ran last
    pc,         \* number of passes of patch_lua that have run (0..7)
    src,        \* try_patch_includes: the source text
    resolver,   \* try_patch_includes: `resolve`, path -> how the call ends
    calls,      \* try_patch_includes: the paths `resolve` was called with
    error,      \* try_patch_includes: the local `error`, <<>> for None
    incOut,     \* try_patch_includes: the text replace_all has built so far
    incPos,     \* try_patch_includes: the search position of replace_all
    incResult,  \* try_patch_includes: <<>> until it returns, then <<r>>
    file,       \* main: `input`, the contents read from the file
    luaOnly,    \* main: output_lua_only
    before_lua, \* main: Option<String>, <<>> for None and <<x>> for Some(x)
    after_lua,  \* main: Option<String>
    pico8_lua,  \* main: the code section
    out_str,    \* main: the patched code section
    stdout,     \* main: what was printed
    mainPc      \* main: "split", "patch", "print" or "done"

vars == <<input, lua, prev, pc, src, resolver, calls, error, incOut, incPos,
          incResult, file, luaOnly, before_lua, after_lua, pico8_lua, out_str,
          stdout, mainPc>>

patchVars == <<input, lua, prev, pc>>
incVars == <<src, resolver, calls, error, incOut, incPos, incResult>>
mainVars ==
    <<file, luaOnly, before_lua, after_lua, pico8_lua, out_str, stdout, mainPc>>

---------------------------------------------------------------------------
(* Characters and character classes of the regex crate.                    *)

Space == {" ", "\n", "\t", "\r"}

Digit == {"0", "1", "2", "3", "4", "5", "6", "7", "8", "9"}

Alpha ==
    {"a", "b", "c", "d", "e", "f", "g", "h", "i", "j", "k", "l", "m",
     "n", "o", "p", "q", "r", "s", "t", "u", "v", "w", "x", "y", "z",
     "A", "B", "C", "D", "E", "F", "G", "H", "I", "J", "K", "L", "M",
     "N", "O", "P", "Q", "R", "S", "T", "U", "V", "W", "X", "Y", "Z"}

WordChar == Alpha \cup Digit \cup {"_"}

Max(S) == CHOOSE x \in S : \A y \in S : y <= x
Min(S) == CHOOSE x \in S : \A y \in S : x <= y

\* The largest and the smallest element of a set of positions, 0 for none.
MaxOr0(S) == IF S = {} THEN 0 ELSE Max(S)
MinOr0(S) == IF S = {} THEN 0 ELSE Min(S)

\* The character at position i, "" outside the text.
At(s, i) == IF i >= 1 /\ i <= Len(s) THEN SubSeq(s, i, i) ELSE ""

\* s[a..b) in Rust's notation, with 1-based positions.
Slice(s, a, b) == IF b <= a THEN "" ELSE SubSeq(s, a, b - 1)

StartsAt(s, i, lit) ==
    /\ i >= 1
    /\ i + Len(lit) - 1 <= Len(s)
    /\ SubSeq(s, i, i + Len(lit) - 1) = lit

\* First position >= i that holds no whitespace (Len(s)+1 at the end): \s*
SkipSpace(s, i) ==
    Min({j \in i..(Len(s) + 1) : At(s, j) \notin Space})

\* First position >= i that holds whitespace or is the end: \S*
SkipNonSpace(s, i) ==
    Min({j \in i..(Len(s) + 1) : At(s, j) \in Space \cup {""}})

\* First position >= i that holds a character of `stops` or is the end.
SkipTo(s, i, stops) ==
    Min({j \in i..(Len(s) + 1) : At(s, j) \in stops \cup {""}})

\* (?m)^ : the start of the text or just after a line feed.
LineStart(s, i) == i = 1 \/ At(s, i - 1) = "\n"

\* (?m)$ : the end of the text or just before a line feed.
LineEnd(s, i) == i = Len(s) + 1 \/ At(s, i) = "\n"

\* \b : exactly one of the two neighbours is a word character.
WordBoundary(s, i) == (At(s, i - 1) \in WordChar) # (At(s, i) \in WordChar)

\* str::find: the first position of lit in s, 0 when absent.
Find(s, lit) ==
    MinOr0({i \in 1..(Len(s) + 1) : StartsAt(s, i, lit)})

\* str::trim_start and str::trim_end.
TrimStart(s) == Slice(s, SkipSpace(s, 1), Len(s) + 1)

TrimEnd(s) ==
    LET K == {k \in 0..Len(s) : \A j \in (k + 1)..Len(s) : At(s, j) \in Space}
    IN Slice(s, 1, Min(K) + 1)


---------------------------------------------------------------------------
(* The seven regular expressions of patch_lua.  XxxCaps(s, i) is the match *)
(* the regex crate reports for a match starting at position i (leftmost-   *)
(* first: greedy repetitions prefer the longest, lazy ones the shortest,   *)
(* alternations the first branch), as [end |-> position after the match,   *)
(* ... capture groups]; end = 0 when the regex does not match at i.        *)

\* regex!(r"!=")
NeqCaps(s, i) ==
    IF StartsAt(s, i, "!=") THEN [end |-> i + 2] ELSE [end |-> 0]

\* regex!(r"//")
CommentCaps(s, i) ==
    IF StartsAt(s, i, "//") THEN [end |-> i + 2] ELSE [end |-> 0]

\* regex!(r"(btnp?)\(\s*(\S+)\s*\)")
BtnCaps(s, i) ==
    LET func == IF StartsAt(s, i, "btnp(") THEN "btnp"
                ELSE IF StartsAt(s, i, "btn(") THEN "btn" ELSE ""
        a == SkipSpace(s, i + Len(func) + 1)
        runEnd == SkipNonSpace(s, a)
        \* \S+ ends at k; it is followed by \s* and then ")"
        K == {k \in (a + 1)..runEnd : At(s, SkipSpace(s, k)) = ")"}
        k == Max(K)
    IN IF func = "" \/ K = {} THEN [end |-> 0]
       ELSE [end |-> SkipSpace(s, k) + 1, c1 |-> func, c2 |-> Slice(s, a, k)]

\* regex!(r"(?m)^(\s*)if\s*(\([^\n]*)$")
IfCaps(s, i) ==
    LET a == SkipSpace(s, i)
        b == SkipSpace(s, a + 2)
        e == SkipTo(s, b, {"\n"})
    IN IF LineStart(s, i) /\ StartsAt(s, a, "if") /\ At(s, b) = "("
       THEN [end |-> e, c0 |-> Slice(s, i, e), c1 |-> Slice(s, i, a),
             c2 |-> Slice(s, b, e)]
       ELSE [end |-> 0]

\* The alternation (\bend|\belse|;|--|$) at position z: the length of the
\* branch that matches, -1 when none does.
TermLen(s, z) ==
    IF WordBoundary(s, z) /\ StartsAt(s, z, "end") THEN 3
    ELSE IF WordBoundary(s, z) /\ StartsAt(s, z, "else") THEN 4
    ELSE IF At(s, z) = ";" THEN 1
    ELSE IF StartsAt(s, z, "--") THEN 2
    ELSE IF LineEnd(s, z) THEN 0
    ELSE -1

\* (\s*(\bend|\belse|;|--|$)) from y: the start z of the alternation; \s* is
\* greedy, so the largest z that works; 0 when none does.
AssignTail(s, y) ==
    MaxOr0({z \in y..SkipSpace(s, y) : TermLen(s, z) >= 0})

\* ([^\n\r]+?) from x followed by the tail: the end y of the expression; the
\* repetition is lazy, so the smallest y that works; 0 when none does.
AssignExprEnd(s, x) ==
    MinOr0({y \in (x + 1)..SkipTo(s, x, {"\n", "\r"}) : AssignTail(s, y) # 0})

\* \s*([^\n\r]+?)(...) from p: the start x of the expression; \s* is greedy,
\* so the largest x that works; 0 when none does.
AssignExprStart(s, p) ==
    MaxOr0({x \in p..SkipSpace(s, p) : AssignExprEnd(s, x) # 0})

\* The operator's position when group 1, ([^-\s]\S*) from i, ends at t: \s*
\* is empty inside the run of non-blanks and skips the blanks after it.
AssignOpAt(s, i, t) ==
    IF t = SkipNonSpace(s, i + 1) THEN SkipSpace(s, t) ELSE t

\* The end t of group 1: \S* is greedy, so the largest t for which the rest
\* of the regex matches; 0 when none does.
AssignTargetEnd(s, i) ==
    MaxOr0({t \in (i + 1)..SkipNonSpace(s, i + 1) :
              /\ At(s, AssignOpAt(s, i, t)) \in {"+", "-", "*", "/", "%"}
              /\ At(s, AssignOpAt(s, i, t) + 1) = "="
              /\ AssignExprStart(s, AssignOpAt(s, i, t) + 2) # 0})

\* The match with group 1 = s[i..t), the operator at w, group 3 = s[x..y)
\* and the alternation at z.
AssignGroups(s, i, t, w, x, y, z) ==
    [end |-> z + TermLen(s, z), c1 |-> Slice(s, i, t), c2 |-> At(s, w),
     c3 |-> Slice(s, x, y), c4 |-> Slice(s, y, z + TermLen(s, z))]

AssignFromExpr(s, i, t, w, x) ==
    AssignGroups(s, i, t, w, x, AssignExprEnd(s, x),
                 AssignTail(s, AssignExprEnd(s, x)))

AssignFromTarget(s, i, t) ==
    IF t = 0 THEN [end |-> 0]
    ELSE AssignFromExpr(s, i, t, AssignOpAt(s, i, t),
                        AssignExprStart(s, AssignOpAt(s, i, t) + 2))

\* regex!(r"(?m)([^-\s]\S*)\s*([+\-*/%])=\s*([^\n\r]+?)(\s*(\bend|\belse|;|--|$))")
AssignCaps(s, i) ==
    IF At(s, i) \in Space \cup {"-", ""} THEN [end |-> 0]
    ELSE AssignFromTarget(s, i, AssignTargetEnd(s, i))

\* regex!(r"(?m)^(\s*)\?([^\n\r]+)")
PrintCaps(s, i) ==
    LET a == SkipSpace(s, i)
        e == SkipTo(s, a + 1, {"\n", "\r"})
    IN IF LineStart(s, i) /\ At(s, a) = "?" /\ e > a + 1
       THEN [end |-> e, c1 |-> Slice(s, i, a), c2 |-> Slice(s, a + 1, e)]
       ELSE [end |-> 0]

\* regex!(r"([^[:alnum:]_])0[bB]([01.]+)")
BinCaps(s, i) ==
    LET e == Min({j \in (i + 3)..(Len(s) + 1) : At(s, j) \notin {"0", "1", "."}})
    IN IF /\ At(s, i) \notin WordChar \cup {""}
          /\ (StartsAt(s, i + 1, "0b") \/ StartsAt(s, i + 1, "0B"))
          /\ e > i + 3
       THEN [end |-> e, c0 |-> Slice(s, i, e), c1 |-> At(s, i),
             c2 |-> Slice(s, i + 3, e)]
       ELSE [end |-> 0]

---------------------------------------------------------------------------
(* The replacers of patch_lua: the text put in place of one match.         *)

\* "~=" and "--"
NeqReplacer(caps) == "~="

CommentReplacer(caps) == "--"

\* Stand-ins for the glyphs, which are not ASCII.
LeftArrow == "<"    \* U+2B05
RightArrow == ">"   \* U+27A1
UpArrow == "^"      \* U+2B06
DownArrow == "&"    \* U+2B07
ButtonO == "@"      \* U+1F17E
ButtonX == "$"      \* U+274E
VS16 == "'"         \* U+FE0F, the presentation selector

\* str::trim_end_matches("\u{fe0f}")
RECURSIVE TrimEndVS16(_)
TrimEndVS16(s) ==
    IF Len(s) > 0 /\ At(s, Len(s)) = VS16
    THEN TrimEndVS16(Slice(s, 1, Len(s)))
    ELSE s

ButtonCode(symbol) ==
    CASE symbol = LeftArrow -> "0"
      [] symbol = RightArrow -> "1"
      [] symbol = UpArrow -> "2"
      [] symbol = DownArrow -> "3"
      [] symbol = ButtonO -> "4"
      [] symbol = ButtonX -> "5"
      [] OTHER -> symbol

BtnReplacer(caps) ==
    caps.c1 \o "(" \o ButtonCode(TrimEndVS16(caps.c2)) \o ")"

\* A then-check that never finds the word.
NeverHasThen(line) == FALSE

\* regex!(r"\bthen\b").is_match(line)
HasThen(line) ==
    \E i \in 1..Len(line) :
        /\ StartsAt(line, i, "then")
        /\ WordBoundary(line, i)
        /\ WordBoundary(line, i + 4)

\* find_matching_bracket::find_matching_paren(line, open): the position of the
\* ")" at which the depth opened at `open` returns to zero, 0 for None.
RECURSIVE MatchingParenFrom(_, _, _)
MatchingParenFrom(line, i, depth) ==
    IF i > Len(line) THEN 0
    ELSE IF At(line, i) = "(" THEN MatchingParenFrom(line, i + 1, depth + 1)
    ELSE IF At(line, i) = ")"
         THEN IF depth = 1 THEN i
              ELSE MatchingParenFrom(line, i + 1, depth - 1)
    ELSE MatchingParenFrom(line, i + 1, depth)

find_matching_paren(line, open) ==
    IF At(line, open) = "(" THEN MatchingParenFrom(line, open, 0) ELSE 0

\* An expansion that leaves a comment of the body in front of `end`.
IfReplacerCommentInside(caps) ==
    IF HasThen(caps.c2) \/ find_matching_paren(caps.c2, 1) = 0 THEN caps.c0
    ELSE caps.c1 \o "if " \o Slice(caps.c2, 2, find_matching_paren(caps.c2, 1))
           \o " then "
           \o TrimStart(Slice(caps.c2, find_matching_paren(caps.c2, 1) + 1,
                              Len(caps.c2) + 1))
           \o " end"

IfReplacer(caps) ==
    LET prefix == caps.c1
        line == caps.c2
        index == find_matching_paren(line, 1)
        cond == Slice(line, 2, index)
        body == TrimStart(Slice(line, index + 1, Len(line) + 1))
        cs == Find(body, "--")
        code == Slice(body, 1, cs)
        comment == Slice(body, cs, Len(body) + 1)
    IN IF HasThen(line) THEN caps.c0
       ELSE IF index # 0
            THEN IF cs # 0
                 THEN prefix \o "if " \o cond \o " then " \o TrimEnd(code)
                        \o " end " \o comment
                 ELSE prefix \o "if " \o cond \o " then " \o body \o " end"
            ELSE caps.c0

\* "$1 = $1 $2 ($3)$4"
AssignReplacer(caps) ==
    caps.c1 \o " = " \o caps.c1 \o " " \o caps.c2 \o " (" \o caps.c3 \o ")"
        \o caps.c4

\* "${1}print($2)"
PrintReplacer(caps) == caps.c1 \o "print(" \o caps.c2 \o ")"

\* The value of a string of binary digits.
RECURSIVE BinValue(_)
BinValue(p) ==
    IF p = "" THEN 0
    ELSE 2 * BinValue(Slice(p, 1, Len(p)))
           + (IF At(p, Len(p)) = "1" THEN 1 ELSE 0)

U64Bits == 64

\* u64::from_str_radix(p, 2).ok(): None for the empty string, for a character
\* that is no binary digit and for a value that does not fit 64 bits.
from_str_radix(p) ==
    LET lead == Min({j \in 1..(Len(p) + 1) : At(p, j) # "0"})
    IN IF \/ p = ""
          \/ \E j \in 1..Len(p) : At(p, j) \notin {"0", "1"}
          \/ Len(p) + 1 - lead > U64Bits
       THEN [some |-> FALSE, val |-> 0]
       ELSE [some |-> TRUE, val |-> BinValue(p)]

HexDigit(d) == SubSeq("0123456789abcdef", d + 1, d + 1)

\* format!("{:x}", n)
RECURSIVE LowerHex(_)
LowerHex(n) ==
    IF n < 16 THEN HexDigit(n) ELSE LowerHex(n \div 16) \o HexDigit(n % 16)

PadWidth == 4

\* format!("{:0<4}", p2): "0" appended up to a width of 4.
RECURSIVE PadRight(_)
PadRight(p2) == IF Len(p2) >= PadWidth THEN p2 ELSE PadRight(p2 \o "0")

\* The first two items of bin.split('.'), "" for a missing one.
SplitDot(bin) ==
    LET d1 == SkipTo(bin, 1, {"."})
        d2 == IF d1 > Len(bin) THEN d1 ELSE SkipTo(bin, d1 + 1, {"."})
    IN [p1 |-> Slice(bin, 1, d1), p2 |-> Slice(bin, d1 + 1, d2)]

BinReplacer(caps) ==
    LET prefix == caps.c1
        parts == SplitDot(caps.c2)
        int_val == from_str_radix(parts.p1)
        frac_val == IF parts.p2 # "" THEN from_str_radix(PadRight(parts.p2))
                    ELSE [some |-> FALSE, val |-> 0]
    IN IF int_val.some /\ frac_val.some
       THEN prefix \o "0x" \o LowerHex(int_val.val) \o "." \o LowerHex(frac_val.val)
       ELSE IF int_val.some
            THEN prefix \o "0x" \o LowerHex(int_val.val)
            ELSE caps.c0

---------------------------------------------------------------------------
(* Regex::replace_all and replace_all_in_place.  The passes are numbered   *)
(* in the order patch_lua runs them.                                       *)

NotEqualPass == "!="
CommentPass == "//"
ButtonPass == "btn"
IfPass == "if"
AssignPass == "op="
PrintPass == "?"
BinaryPass == "0b"

\* An order in which the if pass runs before the two aliasing passes.
PassesIfFirst ==
    <<IfPass, NotEqualPass, CommentPass, ButtonPass, AssignPass, PrintPass,
      BinaryPass>>

\* The order in which patch_lua runs its passes.
Passes ==
    <<NotEqualPass, CommentPass, ButtonPass, IfPass, AssignPass, PrintPass,
      BinaryPass>>

Caps(pass, s, i) ==
    CASE pass = NotEqualPass -> NeqCaps(s, i)
      [] pass = CommentPass -> CommentCaps(s, i)
      [] pass = ButtonPass -> BtnCaps(s, i)
      [] pass = IfPass -> IfCaps(s, i)
      [] pass = AssignPass -> AssignCaps(s, i)
      [] pass = PrintPass -> PrintCaps(s, i)
      [] pass = BinaryPass -> BinCaps(s, i)

Replacer(pass, caps) ==
    CASE pass = NotEqualPass -> NeqReplacer(caps)
      [] pass = CommentPass -> CommentReplacer(caps)
      [] pass = ButtonPass -> BtnReplacer(caps)
      [] pass = IfPass -> IfReplacer(caps)
      [] pass = AssignPass -> AssignReplacer(caps)
      [] pass = PrintPass -> PrintReplacer(caps)
      [] pass = BinaryPass -> BinReplacer(caps)

\* The leftmost position >= i at which the regex matches, 0 when none.
NextMatch(pass, s, i) ==
    MinOr0({j \in i..Len(s) : Caps(pass, s, j).end # 0})

\* The scan of replace_all: i is the search position and the end of the
\* previous match, out the text built so far, n the number of matches, m the
\* start of the next match.
RECURSIVE ReplaceFrom(_, _, _, _, _)
RECURSIVE ReplaceAt(_, _, _, _, _, _)
RECURSIVE ReplaceWith(_, _, _, _, _, _, _)
ReplaceWith(pass, s, i, out, n, m, caps) ==
    ReplaceFrom(pass, s, caps.end,
                out \o Slice(s, i, m) \o Replacer(pass, caps), n + 1)

ReplaceAt(pass, s, i, out, n, m) ==
    IF m = 0
    THEN [text |-> out \o Slice(s, i, Len(s) + 1), n |-> n]
    ELSE ReplaceWith(pass, s, i, out, n, m, Caps(pass, s, m))

ReplaceFrom(pass, s, i, out, n) ==
    ReplaceAt(pass, s, i, out, n, NextMatch(pass, s, i))

\* A Cow that is owned only when the replaced text differs from s.
CowOfChange(s, r) ==
    IF r.text = s THEN [text |-> s, owned |-> FALSE]
    ELSE [text |-> r.text, owned |-> TRUE]

\* The Cow that replace_all returns for the text s and the scan's result r:
\* Cow::Borrowed(s) when the regex matched nowhere, otherwise Cow::Owned of
\* the text with every match replaced.
CowOfScan(s, r) ==
    IF r.n = 0 THEN [text |-> s, owned |-> FALSE]
    ELSE [text |-> r.text, owned |-> TRUE]

\* Regex::replace_all
replace_all(pass, s) == CowOfScan(s, ReplaceFrom(pass, s, 1, "", 0))

\* if let Cow::Owned(o) = new { *s = Cow::Owned(o); }
AssignIfOwned(cow, new) == IF new.owned THEN new ELSE cow

replace_all_in_place(pass, cow) ==
    AssignIfOwned(cow, replace_all(pass, cow.text))

\* was_patched
was_patched(patch_output) == patch_output.owned

\* patch_lua as one function: the passes in order, from pass number k on.
RECURSIVE RunPasses(_, _)
RunPasses(cow, k) ==
    IF k > Len(Passes) THEN cow
    ELSE RunPasses(replace_all_in_place(Passes[k], cow), k + 1)

patch_lua(text) == RunPasses([text |-> text, owned |-> FALSE], 1)

---------------------------------------------------------------------------
(* The inputs of patch_lua the model explores, built from their parts so   *)
(* that a property can name the condition, the body, the expression or the *)
(* numeral of an input without parsing it again.                           *)

MaxIndent == 1      \* leading spaces of a line
MaxNest == 1        \* parenthesis nesting added around a condition
MaxFracBits == 8    \* digits after the point of a binary numeral

RECURSIVE Repeat(_, _)
Repeat(c, n) == IF n = 0 THEN "" ELSE c \o Repeat(c, n - 1)

Indents == {Repeat(" ", k) : k \in 0..MaxIndent} \cup {"\t"}

Gaps == {"", " "}

\* Conditions with balanced parentheses, nested up to n levels deeper, as
\* pairs: the condition written with "!=" and the same written with "~=".
RECURSIVE CondPairsUpTo(_)
CondPairsUpTo(n) ==
    IF n = 0 THEN {<<"not b", "not b">>, <<"a != b", "a ~= b">>}
    ELSE LET C == CondPairsUpTo(n - 1)
         IN C \cup {<<"(" \o c[1] \o ")", "(" \o c[2] \o ")">> : c \in C}
              \cup {<<"f(" \o c[1] \o ") or g()", "f(" \o c[2] \o ") or g()">> :
                      c \in C}

CondPairs == CondPairsUpTo(MaxNest)

Conds == {c[1] : c \in CondPairs} \cup {c[2] : c \in CondPairs}

\* What follows the condition's ")": code without a comment, code with a
\* comment, and text that holds the word `then`.
CodeBodies == {"", " i = 1", "g(b)", "  sfx(v)  ", " x += 1", " x = (y)"}

CommentBodies ==
    {" i = 1 // hi", " i = 1 -- hi", " g(b)  -- (c)", " x += 1 // c", "--c"}

ThenBodies == {" then", " then i = 1 end", " x = 1 -- then"}

\* What follows the line.
Tails == {"", "\n", "\nj = 2"}

IfLine(ind, gap, c, b) == ind \o "if" \o gap \o "(" \o c \o ")" \o b

IfInputs ==
    {IfLine(ind, gap, c, b) \o t :
        ind \in Indents, gap \in Gaps, c \in Conds,
        b \in CodeBodies \cup CommentBodies \cup ThenBodies, t \in Tails}

\* Text after "if (" that never closes that parenthesis on its line.
Unclosed ==
    Conds \cup {"(" \o c \o ") and" : c \in Conds}
          \cup {c \o " i = 1" : c \in Conds}

\* What follows such a line: nothing, or the rest of the condition.
Continuations == {"", "\n    (c)) i = 1", "\n    (c))\n    then i = 1 end"}

UnclosedLine(ind, gap, u) == ind \o "if" \o gap \o "(" \o u

UnclosedInputs ==
    {UnclosedLine(ind, gap, u) \o k :
        ind \in Indents, gap \in Gaps, u \in Unclosed, k \in Continuations}

\* Compound assignments: pre target gap op= gap expr term
AssignPres == {"", "if true then "}
Targets == {"x", "tb.i"}
Ops == {"+", "-", "*", "/", "%"}
Exprs == {"1", "f.delay or self.delay", "g(x) * 2", "-1", "a + endv"}
Terms == {"", " end", "; r = true end", " -- c", " else y = 1 end"}

Assignment(pre, target, gap, op, expr, term) ==
    pre \o target \o gap \o op \o "=" \o gap \o expr \o term

AssignInputs ==
    {Assignment(pre, target, gap, op, expr, term) :
        pre \in AssignPres, target \in Targets, gap \in Gaps, op \in Ops,
        expr \in Exprs, term \in Terms}

\* Binary numerals: pre 0b int [. frac] post
BinPres == {"", "a=", "a = "}
BinPrefixes == {"0b", "0B"}
IntParts == {"0", "1010"}
FracParts ==
    {Repeat("0", a) \o "1" \o Repeat("0", b) :
        a \in 0..(MaxFracBits - 1), b \in 0..(MaxFracBits - 1)}
    \cup {Repeat("1", k) : k \in 1..MaxFracBits}
FracsInRange == {f \in FracParts : Len(f) <= MaxFracBits}
BinPosts == {"", " + 1"}

Numeral(pre, b, int, frac, post) ==
    pre \o b \o int \o (IF frac = "" THEN "" ELSE "." \o frac) \o post

BinInputs ==
    {Numeral(pre, b, int, frac, post) :
        pre \in BinPres, b \in BinPrefixes, int \in IntParts,
        frac \in {""} \cup FracsInRange, post \in BinPosts}

\* Numerals whose integer or fractional part is no string of binary digits.
Malformed == {"0b.1", "0b1.", "0b1..x", "0b1.0.1", "0b."}

MalformedInputs == {"a = " \o m : m \in Malformed}

\* Other texts: the repository's tests and lines no pass or one pass matches.
OtherInputs ==
    {"", "x = 1", "print('hello')", "a != b", "// this is a comment",
     "if a != b then print(a) end", "?x", "?x + y", "  ?x", "?", "x = 1\n?y",
     "btn(<)", "btnp( >' )", "if btnp(>') or btn($) then", "btn(q)", "btn()",
     "btnp(@) // o", "--==configurations==--", "a = 0b2", "a0b1",
     "if (a != b) x += 1 // c",
     "// comment\n if (a != b) x += 1\n ?x\n"}

Inputs ==
    IfInputs \cup UnclosedInputs \cup AssignInputs \cup BinInputs
        \cup MalformedInputs \cup OtherInputs

---------------------------------------------------------------------------
(* patch_lua as a state machine: one action per pass.                      *)

Borrowed(text) == [text |-> text, owned |-> FALSE]

IncludesIdle ==
    /\ src = ""
    /\ resolver = <<>>
    /\ calls = <<>>
    /\ error = <<>>
    /\ incOut = ""
    /\ incPos = 0
    /\ incResult = <<>>

MainIdle ==
    /\ file = ""
    /\ luaOnly = FALSE
    /\ before_lua = <<>>
    /\ after_lua = <<>>
    /\ pico8_lua = ""
    /\ out_str = ""
    /\ stdout = ""
    /\ mainPc = "idle"

PatchIdle ==
    /\ input = ""
    /\ lua = Borrowed("")
    /\ prev = Borrowed("")
    /\ pc = 0

\* let mut lua = lua.into();
Init ==
    /\ input \in Inputs
    /\ lua = Borrowed(input)
    /\ prev = Borrowed(input)
    /\ pc = 0
    /\ IncludesIdle
    /\ MainIdle

\* The k-th call of replace_all_in_place in patch_lua.
RunPass(k) ==
    /\ prev' = lua
    /\ lua' = replace_all_in_place(Passes[k], lua)
    /\ pc' = k
    /\ UNCHANGED <<input, incVars, mainVars>>

\* replace_all_in_place(regex!(r"!="), &mut lua, "~=")
AliasNotEqual ==
    /\ pc = 0
    /\ RunPass(1)

\* replace_all_in_place(regex!(r"//"), &mut lua, "--")
AliasComment ==
    /\ pc = 1
    /\ RunPass(2)

\* Replace unicode symbols for buttons.
ButtonSymbols ==
    /\ pc = 2
    /\ RunPass(3)

\* Rewrite shorthand if statements.
ShorthandIf ==
    /\ pc = 3
    /\ RunPass(4)

\* Rewrite assignment operators (+=, -=, etc.).
CompoundAssign ==
    /\ pc = 4
    /\ RunPass(5)

\* Replace "?expr" with "print(expr)".
PrintShorthand ==
    /\ pc = 5
    /\ RunPass(6)

\* Convert binary literals to hex literals.
BinaryLiterals ==
    /\ pc = 6
    /\ RunPass(7)

Next ==
    \/ AliasNotEqual
    \/ AliasComment
    \/ ButtonSymbols
    \/ ShorthandIf
    \/ CompoundAssign
    \/ PrintShorthand
    \/ BinaryLiterals

Spec == Init /\ [][Next]_vars

Returned == pc = Len(Passes)

---------------------------------------------------------------------------
(* Properties of patch_lua.                                                *)

\* The regex of `pass` matches somewhere in `text`.
PatternOccurs(pass, text) ==
    \E i \in 1..Len(text) : Caps(pass, text, i).end # 0

\* Inputs in which, by construction, no pass pattern occurs, and inputs in
\* which one occurs although the pass leaves the text as it was.
PlainInputs ==
    {"", "x = 1", "print('hello')", "a0b1", "a = 0b2", "?", "btn()",
     "--==configurations==--"}

PassThroughInputs == {"btn(q)"} \cup UnclosedInputs

\* C1: the result of patch_lua on a borrowed input is Cow::Borrowed of that
\* same input when none of the seven pass patterns matches the running text,
\* and Cow::Owned when at least one of them matches: each pass leaves `lua`
\* owned exactly when it was owned already or the pass's pattern occurs in
\* the text the pass reads.
C1_BorrowedIffNoPatternMatches ==
    /\ pc = 0 => ~lua.owned
    /\ pc >= 1 =>
         lua.owned = (prev.owned \/ PatternOccurs(Passes[pc], prev.text))
    /\ ~lua.owned => lua.text = input
    /\ Returned /\ input \in PlainInputs => ~lua.owned
    /\ Returned /\ input \in PassThroughInputs => lua.owned

\* A pattern matched, the text is the input, and the result is owned.
C1_Witness ==
    /\ Returned
    /\ input \in UnclosedInputs
    /\ lua.owned
    /\ lua.text = input

\* C2: was_patched(patch_lua(s)) is false whenever the output text equals s,
\* also when a pass matched and took its pass-through branch.
C2_UnchangedTextIsNotPatched ==
    Returned /\ lua.text = input => ~was_patched(lua)

\* What follows `then` for the text b after the condition's ")": b and
\* " end", or b's code, " end " and b's comment. The template separates its
\* parts by single blanks, as in `if (not b) i = 1` -> `if not b then i = 1
\* end`: b is taken without its leading blanks and the code in front of a
\* comment without its trailing blanks.
ExpandedBody(b) ==
    IF Find(TrimStart(b), "--") # 0
    THEN TrimEnd(Slice(TrimStart(b), 1, Find(TrimStart(b), "--")))
           \o " end "
           \o Slice(TrimStart(b), Find(TrimStart(b), "--"),
                    Len(TrimStart(b)) + 1)
    ELSE TrimStart(b) \o " end"

\* C3: a line <indent>if<spaces>(<condition>)<body> without the word `then`
\* becomes <indent>if <condition> then <body> end, the condition being the
\* text up to the ")" that closes the first "(", and a comment in the body
\* moved behind `end`.
C3_ShorthandIfExpanded ==
    pc = 4 =>
      \A ind \in Indents, gap \in Gaps, c \in Conds :
        StartsAt(prev.text, 1, ind \o "if" \o gap \o "(" \o c \o ")") =>
          \A b \in CodeBodies \cup CommentBodies, t \in Tails :
            prev.text = IfLine(ind, gap, c, b) \o t =>
              lua.text = ind \o "if " \o c \o " then " \o ExpandedBody(b) \o t

\* The if pass expanded a line with a nested condition, parentheses in the
\* body and a comment.
C3_Witness ==
    /\ pc = 4
    /\ prev.text = " if (f(a ~= b) or g()) g(b)  -- (c)\nj = 2"
    /\ lua.text = " if f(a ~= b) or g() then g(b) end -- (c)\nj = 2"

\* C4: a line that begins with `if (` and holds the word `then`, or whose
\* first "(" is not closed on the line, leaves the if pass unchanged.
C4_ThenOrUnclosedPassesThrough ==
    pc = 4 =>
      /\ \A ind \in Indents, gap \in Gaps, c \in Conds :
           StartsAt(prev.text, 1, ind \o "if" \o gap \o "(" \o c \o ")") =>
             \A b \in ThenBodies, t \in Tails :
               prev.text = IfLine(ind, gap, c, b) \o t =>
                 lua.text = prev.text
      /\ \A ind \in Indents, gap \in Gaps, u \in Unclosed :
           StartsAt(prev.text, 1, UnclosedLine(ind, gap, u)) =>
             \A k \in Continuations :
               prev.text = UnclosedLine(ind, gap, u) \o k =>
                 lua.text = prev.text

\* The if pass matched a condition continued on the next line and left it.
C4_Witness ==
    /\ pc = 4
    /\ prev.text = "if ((a ~= b) and\n    (c))\n    then i = 1 end"
    /\ lua.text = prev.text
    /\ lua.owned

\* C5: target op= expr becomes target = target op (expr), expr being all the
\* text up to the first terminating token (the keyword end, the keyword
\* else, ";", "--" or the end of the line), which is kept after the ")".
C5_CompoundAssignExpanded ==
    pc = 5 =>
      \A pre \in AssignPres, target \in Targets, gap \in Gaps, op \in Ops :
        StartsAt(prev.text, 1, pre \o target \o gap \o op \o "=") =>
          \A expr \in Exprs, term \in Terms :
            prev.text = Assignment(pre, target, gap, op, expr, term) =>
              lua.text = pre \o target \o " = " \o target \o " " \o op
                           \o " (" \o expr \o ")" \o term

\* The hexadecimal digits of a string of binary digits, four bits a digit;
\* the length of the string is a multiple of four.
RECURSIVE NibblesToHex(_)
NibblesToHex(bits) ==
    IF bits = "" THEN ""
    ELSE HexDigit(BinValue(Slice(bits, 1, 5)))
           \o NibblesToHex(Slice(bits, 5, Len(bits) + 1))

\* The fraction right-padded with zero bits to a multiple of 4 bits.
PadToNibbles(frac) == frac \o Repeat("0", (4 - (Len(frac) % 4)) % 4)

\* The hexadecimal numeral of the same value as 0b int . frac
HexNumeral(int, frac) ==
    "0x" \o LowerHex(BinValue(int))
         \o (IF frac = "" THEN "" ELSE "." \o NibblesToHex(PadToNibbles(frac)))

\* C6: a numeral 0b int [. frac], wherever it occurs, becomes the 0x numeral
\* of the same value; a numeral whose integer or fractional part is no
\* string of binary digits stays, and no character around it is dropped.
C6_BinaryNumeralConverted ==
    pc = 7 =>
      /\ \A pre \in BinPres, b \in BinPrefixes, int \in IntParts :
           StartsAt(prev.text, 1, pre \o b \o int) =>
             \A frac \in {""} \cup FracsInRange, post \in BinPosts :
               prev.text = Numeral(pre, b, int, frac, post) =>
                 lua.text = pre \o HexNumeral(int, frac) \o post
      /\ prev.text \in MalformedInputs => lua.text = prev.text

\* C10: the passes run in the order !=, //, buttons, if, assignment, print,
\* binary, each on the output of the one before: on one shorthand-if line
\* the // comment is already -- and is put behind the inserted `end`, the !=
\* of the condition is ~=, and the compound assignment of the body is
\* expanded up to that `end`. The example `if (a != b) x += 1 // c` and its
\* family: indent, condition and what follows the line vary.
C10_PassesComposeInOrder ==
    Returned =>
      /\ input = "if (a != b) x += 1 // c" =>
           lua.text = "if a ~= b then x = x + (1) end -- c"
      /\ \A ind \in Indents, gap \in Gaps, c \in CondPairs :
           StartsAt(input, 1, ind \o "if" \o gap \o "(" \o c[1] \o ")") =>
             \A t \in Tails :
               input = IfLine(ind, gap, c[1], " x += 1 // c") \o t =>
                 lua.text = ind \o "if " \o c[2]
                              \o " then x = x + (1) end -- c" \o t

\* The passes ran on the claim's example.
C10_Witness ==
    /\ Returned
    /\ input = "if (a != b) x += 1 // c"
    /\ lua.text = "if a ~= b then x = x + (1) end -- c"

---------------------------------------------------------------------------
(* try_patch_includes: replace_all over the include directives, one        *)
(* resolver call per step.                                                 *)

\* regex!(r"(?m)^\s*#include\s+(\S+)")
IncludeCaps(s, i) ==
    LET a == SkipSpace(s, i)
        b == SkipSpace(s, a + 8)
    IN IF /\ LineStart(s, i)
          /\ StartsAt(s, a, "#include")
          /\ At(s, a + 8) \in Space
          /\ SkipNonSpace(s, b) > b
       THEN [end |-> SkipNonSpace(s, b), c1 |-> Slice(s, b, SkipNonSpace(s, b))]
       ELSE [end |-> 0]

\* The start of the leftmost directive at or after i, 0 when there is none.
NextInclude(s, i) ==
    MinOr0({j \in i..Len(s) : IncludeCaps(s, j).end # 0})

\* The resolver: for each path, how the call ends.  "text" returns plain
\* text, "directive" returns text that is itself an include directive, and
\* "fail" returns an error that names the path.
Paths == {"a", "b.p8", "c"}

Outcomes == {"text", "directive", "fail"}

Resolvers == [Paths -> Outcomes]

ErrorOf(path) == "cannot read " \o path

\* resolve(&caps[1])
resolve(res, path) ==
    IF path \notin DOMAIN res THEN [ok |-> TRUE, val |-> ""]
    ELSE IF res[path] = "fail" THEN [ok |-> FALSE, err |-> ErrorOf(path)]
    ELSE IF res[path] = "directive"
         THEN [ok |-> TRUE, val |-> "#include " \o path \o ".inc"]
    ELSE [ok |-> TRUE, val |-> "-- " \o path]

\* format!("error(\"failed to include {:?}: {}\")", &caps[1], &e)
ErrorMarker(path, e) ==
    "error(\"failed to include \"" \o path \o "\": " \o e \o "\")"

\* A record that keeps the last failure instead of the first.
RecordLastError(err, e) == <<e>>

\* if error.is_none() { error = Some(Err(e)) }
RecordError(err, e) == IF err = <<>> THEN <<e>> ELSE err

\* The closure passed to replace_all_in_place: the replacement text.
IncludeReplacer(r, path) ==
    IF r.ok THEN r.val ELSE ErrorMarker(path, r.err)

\* The sources: up to MaxLines lines, each a directive (with the text that
\* follows the path on its line) or a line that is no directive.
MaxLines == 3

Lines ==
    {[text |-> "#include a", path |-> "a", rest |-> ""],
     [text |-> "  #include b.p8", path |-> "b.p8", rest |-> ""],
     [text |-> "#include\tc -- lib", path |-> "c", rest |-> " -- lib"],
     [text |-> "-- #include a", path |-> "", rest |-> ""]}

Documents == UNION {[1..n -> Lines] : n \in 1..MaxLines}

RECURSIVE DocTextFrom(_, _)
DocTextFrom(d, k) ==
    IF k = Len(d) THEN d[k].text
    ELSE d[k].text \o "\n" \o DocTextFrom(d, k + 1)

DocText(d) == DocTextFrom(d, 1)

Sources == {DocText(d) : d \in Documents}

IncludesInit ==
    /\ src \in Sources
    /\ resolver \in Resolvers
    /\ calls = <<>>
    /\ error = <<>>
    /\ incOut = ""
    /\ incPos = 1
    /\ incResult = <<>>
    /\ PatchIdle
    /\ MainIdle

\* One call of the closure: the next directive is resolved and replaced.
ResolveDirective ==
    /\ incResult = <<>>
    /\ incPos >= 1
    /\ NextInclude(src, incPos) # 0
    /\ LET m == NextInclude(src, incPos)
           caps == IncludeCaps(src, m)
           r == resolve(resolver, caps.c1)
       IN /\ calls' = Append(calls, caps.c1)
          /\ error' = IF r.ok THEN error ELSE RecordError(error, r.err)
          /\ incOut' = incOut \o Slice(src, incPos, m)
                         \o IncludeReplacer(r, caps.c1)
          /\ incPos' = caps.end
    /\ UNCHANGED <<src, resolver, incResult, patchVars, mainVars>>

\* error.unwrap_or(Ok(lua))
ReturnIncludes ==
    /\ incResult = <<>>
    /\ incPos >= 1
    /\ NextInclude(src, incPos) = 0
    /\ incResult' =
         <<IF error # <<>> THEN [ok |-> FALSE, err |-> error[1]]
           ELSE [ok |-> TRUE,
                 val |-> IF calls = <<>> THEN Borrowed(src)
                         ELSE [text |-> incOut
                                          \o Slice(src, incPos, Len(src) + 1),
                               owned |-> TRUE]]>>
    /\ UNCHANGED <<src, resolver, calls, error, incOut, incPos, patchVars,
                   mainVars>>

IncludesNext ==
    \/ ResolveDirective
    \/ ReturnIncludes

SpecIncludes == IncludesInit /\ [][IncludesNext]_vars

---------------------------------------------------------------------------
(* Properties of try_patch_includes.                                       *)

\* The paths of a document's directives, in document order.
RECURSIVE DocPathsFrom(_, _)
DocPathsFrom(d, k) ==
    IF k > Len(d) THEN <<>>
    ELSE (IF d[k].path = "" THEN <<>> ELSE <<d[k].path>>)
           \o DocPathsFrom(d, k + 1)

DocPaths(d) == DocPathsFrom(d, 1)

\* The document with every directive replaced by the resolver's text.
RECURSIVE ResolvedFrom(_, _, _)
ResolvedFrom(d, res, k) ==
    (IF d[k].path = "" THEN d[k].text
     ELSE resolve(res, d[k].path).val \o d[k].rest)
      \o (IF k = Len(d) THEN "" ELSE "\n" \o ResolvedFrom(d, res, k + 1))

Failing(d, res) ==
    {k \in 1..Len(DocPaths(d)) : res[DocPaths(d)[k]] = "fail"}

\* Each source text with the document it was built from.
SourceTable == {[text |-> DocText(d), doc |-> d] : d \in Documents}

\* C7: the resolver is called once per directive, in document order, also
\* after a call failed, and never on the resolver's own output; the result
\* is Ok of the text with every directive replaced when no call fails, and
\* otherwise the error of the first failing directive.
C7_IncludesResolvedInOrder ==
    \A e \in SourceTable :
      e.text = src =>
        /\ Len(calls) <= Len(DocPaths(e.doc))
        /\ calls = SubSeq(DocPaths(e.doc), 1, Len(calls))
        /\ incResult # <<>> =>
             /\ calls = DocPaths(e.doc)
             /\ Failing(e.doc, resolver) = {} =>
                  /\ incResult[1].ok
                  /\ incResult[1].val.text = ResolvedFrom(e.doc, resolver, 1)
             /\ Failing(e.doc, resolver) # {} =>
                  incResult[1] =
                    [ok |-> FALSE,
                     err |-> ErrorOf(DocPaths(e.doc)[Min(Failing(e.doc, resolver))])]

\* Two directives failed, a third was still resolved, and the first error
\* came back.
C7_Witness ==
    /\ incResult = <<[ok |-> FALSE, err |-> ErrorOf("b.p8")]>>
    /\ calls = <<"b.p8", "a", "c">>
    /\ resolver["a"] = "fail"
    /\ resolver["c"] = "directive"

---------------------------------------------------------------------------
(* main of the command-line driver.                                        *)

CartridgePrefix == "pico-8 cartridge"
before_delimiter == "__lua__\n"
after_delimiter == "__gfx__"

\* split: s.split(delimiter).collect(), every piece between two occurrences
\* of the delimiter.
RECURSIVE split(_, _)
split(s, delimiter) ==
    IF Find(s, delimiter) = 0 THEN <<s>>
    ELSE <<Slice(s, 1, Find(s, delimiter))>>
           \o split(Slice(s, Find(s, delimiter) + Len(delimiter), Len(s) + 1),
                    delimiter)

\* input.starts_with("pico-8 cartridge")
is_p8_file(text) == StartsAt(text, 1, CartridgePrefix)

\* Option::unwrap_or
unwrap_or(opt, default) == IF opt = <<>> THEN default ELSE opt[1]

\* The files: a header, a preamble, the code section and the trailer, with
\* or without the markers.
Headers == {CartridgePrefix \o " // http://www.pico-8.com\n"}
Preambles == {"", "version 41\n"}
CodeSections == {"", "x = 1\n", "if (a != b) x += 1 // c\n"}
Trailers ==
    {"\n00ff\n", "\n00\n__map__\n01\n", "\n00\n__gfx__\n11\n",
     "\n00\n__lua__\ny = 2\n"}

Cartridge(h, pre, code, trailer) ==
    h \o pre \o before_delimiter \o code \o after_delimiter \o trailer

Cartridges ==
    {Cartridge(h, pre, code, trailer) :
        h \in Headers, pre \in Preambles, code \in CodeSections,
        trailer \in Trailers}

\* Cartridges without the trailer marker and without the start marker.
NoTrailerMarker ==
    {h \o pre \o before_delimiter \o code :
        h \in Headers, pre \in Preambles, code \in CodeSections}

NoStartMarker ==
    {h \o pre \o code \o after_delimiter \o "\n00\n" :
        h \in Headers, pre \in Preambles, code \in CodeSections}
    \cup {h \o pre \o code :
            h \in Headers, pre \in Preambles, code \in CodeSections}

\* Texts that do not start with the cartridge prefix.
PlainFiles ==
    CodeSections
    \cup {"-- " \o c : c \in Cartridges}
    \cup {"x = 0b11\n__lua__\ny = 1\n__gfx__\n00\n"}

Files == Cartridges \cup NoTrailerMarker \cup NoStartMarker \cup PlainFiles

MainInit ==
    /\ file \in Files
    /\ luaOnly \in BOOLEAN
    /\ before_lua = <<>>
    /\ after_lua = <<>>
    /\ pico8_lua = ""
    /\ out_str = ""
    /\ stdout = ""
    /\ mainPc = "split"
    /\ PatchIdle
    /\ IncludesIdle

\* let pico8_lua = if is_p8_file { ... } else { input };
SplitCartridge ==
    /\ mainPc = "split"
    /\ LET t1 == split(file, before_delimiter)
           t2 == split(t1[2], after_delimiter)
       IN IF is_p8_file(file) /\ Len(t1) > 1
          THEN /\ before_lua' = <<t1[1]>>
               /\ after_lua' = IF Len(t2) > 1 THEN <<t2[2]>> ELSE <<>>
               /\ pico8_lua' = t2[1]
          ELSE /\ before_lua' = <<>>
               /\ after_lua' = <<>>
               /\ pico8_lua' = file
    /\ mainPc' = "patch"
    /\ UNCHANGED <<file, luaOnly, out_str, stdout, patchVars, incVars>>

\* let out_str = patch_lua(pico8_lua).unwrap(); patch_lua returns the Cow
\* itself, neither Option nor Result, so out_str is its text.
PatchCode ==
    /\ mainPc = "patch"
    /\ out_str' = patch_lua(pico8_lua).text
    /\ mainPc' = "print"
    /\ UNCHANGED <<file, luaOnly, before_lua, after_lua, pico8_lua, stdout,
                   patchVars, incVars>>

\* if is_p8_file && !output_lua_only { print!(...); if after_lua.is_some() {
\* print!(...) } }
PrintOutput ==
    /\ mainPc = "print"
    /\ stdout' =
         IF is_p8_file(file) /\ ~luaOnly
         THEN unwrap_or(before_lua, "") \o before_delimiter \o out_str
                \o (IF after_lua # <<>> THEN after_delimiter \o after_lua[1]
                    ELSE "")
         ELSE stdout
    /\ mainPc' = "done"
    /\ UNCHANGED <<file, luaOnly, before_lua, after_lua, pico8_lua, out_str,
                   patchVars, incVars>>

MainNext ==
    \/ SplitCartridge
    \/ PatchCode
    \/ PrintOutput

SpecMain == MainInit /\ [][MainNext]_vars

Exited == mainPc = "done"

---------------------------------------------------------------------------
(* Properties of the driver.                                               *)

\* C8: for a cartridge with both markers and without the code-only flag the
\* output is preamble, start marker, patched code section, trailer marker and
\* trailer, the trailer being every byte after the first trailer marker, also
\* when a marker occurs again in it.
C8_EnvelopeRestored ==
    Exited /\ ~luaOnly =>
      \A h \in Headers, pre \in Preambles, code \in CodeSections :
        \A trailer \in Trailers :
          file = Cartridge(h, pre, code, trailer) =>
            stdout = h \o pre \o before_delimiter \o patch_lua(code).text
                       \o after_delimiter \o trailer

\* C9: when no envelope is to be restored the output is the patched code and
\* nothing else: (a) the input is no cartridge, (b) a cartridge lacks one of
\* the markers, (c) the code-only flag is given.
C9_CodeOnlyOutput ==
    Exited =>
      /\ file \in PlainFiles => stdout = patch_lua(file).text
      /\ file \in NoTrailerMarker \cup NoStartMarker =>
           stdout = patch_lua(file).text
      /\ luaOnly =>
           \A h \in Headers, pre \in Preambles, code \in CodeSections :
             \A trailer \in {"\n00ff\n", "\n00\n__map__\n01\n"} :
               file = Cartridge(h, pre, code, trailer) =>
                 stdout = patch_lua(code).text

=============================================================================
